---- MODULE Spec2Model ----
(***************************************************************************)
(* A model of Cart.py: the Product / CartItem classes, the catalog and     *)
(* cart-state loaders of ShoppingCart and its add_item / remove_item /     *)
(* update_quantity operations with their write-through persistence.        *)
(***************************************************************************)
EXTENDS Integers, Sequences, FiniteSets, TLC

VARIABLES
    catalogFile,  \* the product catalog file: NoFile or File(a JSON array)
    cartFile,     \* the cart state file: NoFile or File(a JSON array)
    catalog,      \* ShoppingCart._catalog: product_id -> Product object
    items,        \* ShoppingCart._items: insertion-ordered dict, as a sequence of entries
    pc,           \* "new" before ShoppingCart(), "ready" after it, "crashed" when it raised
    last,         \* the last call: its name, arguments, return value and the state before it
    prior         \* the call before the last one when that was a successful add_item:
                  \* its product and that product's stock and cart quantity before it

vars == <<catalogFile, cartFile, catalog, items, pc, last, prior>>

----------------------------------------------------------------------------
(* Bounds of the model *)

MaxStock == 2        \* largest quantity_available written in a catalog file
MaxQty == 2          \* largest quantity argument of a call
MaxNeg == 1          \* the quantity arguments go down to -MaxNeg
MaxAvail == 2        \* cap on |quantity_available| while the model runs
MaxCart == 2         \* cap on a cart item's quantity while the model runs
MaxRecords == 2      \* longest catalog file with arbitrary records
MaxCartRecords == 2  \* longest hand-written cart file

\* a file is absent (open raises FileNotFoundError) or holds a JSON array
NoFile == [exists |-> FALSE, data |-> <<>>]
File(data) == [exists |-> TRUE, data |-> data]
NoProduct == "None"
CatalogIds == {"P1", "P2"}
UnknownId == "PX"
ProductIds == CatalogIds \cup {UnknownId}
Quantities == (-MaxNeg)..MaxQty

Range(s) == {s[i] : i \in DOMAIN s}
EmptyDict == [k \in {} |-> NoProduct]

----------------------------------------------------------------------------
(* class Product and its subclasses *)

BaseKeys == <<"product_id", "name", "price", "quantity_available">>
PhysicalKeys == BaseKeys \o <<"weight">>
DigitalKeys == BaseKeys \o <<"download_link">>

\* decrease_quantity without the stock ceiling: 0 < amount only
decrease_quantity_no_ceiling(product, amount) ==
    IF 0 < amount
    THEN [ok |-> TRUE,
          product |-> [product EXCEPT !.quantity_available = @ - amount]]
    ELSE [ok |-> FALSE, product |-> product]

\* decrease_quantity accepting a zero amount: 0 <= amount <= stock
decrease_quantity_zero_ok(product, amount) ==
    IF 0 <= amount /\ amount <= product.quantity_available
    THEN [ok |-> TRUE,
          product |-> [product EXCEPT !.quantity_available = @ - amount]]
    ELSE [ok |-> FALSE, product |-> product]

\* decrease_quantity with a strict ceiling: 0 < amount < stock
decrease_quantity_strict(product, amount) ==
    IF 0 < amount /\ amount < product.quantity_available
    THEN [ok |-> TRUE,
          product |-> [product EXCEPT !.quantity_available = @ - amount]]
    ELSE [ok |-> FALSE, product |-> product]

\* decrease_quantity without the positivity check: amount <= stock only
decrease_quantity_no_floor(product, amount) ==
    IF amount <= product.quantity_available
    THEN [ok |-> TRUE,
          product |-> [product EXCEPT !.quantity_available = @ - amount]]
    ELSE [ok |-> FALSE, product |-> product]

\* Product.decrease_quantity: deduct only when 0 < amount <= stock
decrease_quantity(product, amount) ==
    IF 0 < amount /\ amount <= product.quantity_available
    THEN [ok |-> TRUE,
          product |-> [product EXCEPT !.quantity_available = @ - amount]]
    ELSE [ok |-> FALSE, product |-> product]

\* increase_quantity assigning instead of adding ( = for += )
increase_quantity_assign(product, amount) ==
    [product EXCEPT !.quantity_available = amount]

\* Product.increase_quantity: unconditional addition
increase_quantity(product, amount) ==
    [product EXCEPT !.quantity_available = @ + amount]

----------------------------------------------------------------------------
(* class CartItem.  An entry of _items is [key, product, quantity]: the     *)
(* dict key, the catalog key of the referenced Product object, _quantity.  *)

CartItem(key, quantity) == [key |-> key, product |-> key, quantity |-> quantity]

\* the setter refusing zero as well ( > for >= )
SetQuantity_positive_only(item, value) ==
    IF value > 0 THEN [item EXCEPT !.quantity = value] ELSE item

\* CartItem.quantity setter: negative values are silently ignored
SetQuantity(item, value) ==
    IF value >= 0 THEN [item EXCEPT !.quantity = value] ELSE item

\* CartItem.to_dict, resolving the product reference in catalog cat
to_dict(item, cat) ==
    [product_id |-> cat[item.product].product_id, quantity |-> item.quantity]

\* calculate_subtotal forgetting the quantity
calculate_subtotal_price_only(item, cat) == cat[item.product].price

\* CartItem.calculate_subtotal
calculate_subtotal(item, cat) == cat[item.product].price * item.quantity

----------------------------------------------------------------------------
(* The _items dict as an insertion-ordered sequence *)

Keys(its) == {its[i].key : i \in DOMAIN its}
IndexOf(its, key) == CHOOSE i \in DOMAIN its : its[i].key = key
Get(its, key) == its[IndexOf(its, key)]
\* d[key] = item: replaces in place when the key exists, else appends
Put(its, key, item) ==
    IF key \in Keys(its)
    THEN [its EXCEPT ![IndexOf(its, key)] = item]
    ELSE Append(its, item)
\* d.get(key) for d.pop(key): the entry stays
Pop_keep(its, key) == its

\* d.clear() for d.pop(key): every entry goes
Pop_clear(its, key) == <<>>

\* d.pop(key)
Pop(its, key) ==
    LET i == IndexOf(its, key)
    IN  SubSeq(its, 1, i - 1) \o SubSeq(its, i + 1, Len(its))

CartQty(its, key) == IF key \in Keys(its) THEN Get(its, key).quantity ELSE 0
Stock(cat, key) == cat[key].quantity_available

----------------------------------------------------------------------------
(* ShoppingCart._load_catalog *)

ItemType(item) == IF "type" \in DOMAIN item THEN item.type ELSE "base"

KeysFor(type) ==
    IF type = "physical" THEN PhysicalKeys
    ELSE IF type = "digital" THEN DigitalKeys
    ELSE BaseKeys

ClassFor(type) ==
    IF type = "physical" THEN "PhysicalProduct"
    ELSE IF type = "digital" THEN "DigitalProduct"
    ELSE "Product"

\* {k: item_args[k] for k in [...] if k in item_args}
PickArgs(item, keys) == [k \in Range(keys) \cap DOMAIN item |-> item[k]]

\* Product(**args) raises TypeError unless every positional parameter is given
MissingArgs(item) == Range(KeysFor(ItemType(item))) \ DOMAIN item

NewProduct(item) ==
    PickArgs(item, KeysFor(ItemType(item))) @@ [class |-> ClassFor(ItemType(item))]

RECURSIVE LoadRecords_break(_, _, _)
\* the loop leaving at a record without product_id ( break for continue )
LoadRecords_break(data, i, cat) ==
    IF i > Len(data) THEN [raised |-> FALSE, catalog |-> cat]
    ELSE IF "product_id" \notin DOMAIN data[i] THEN [raised |-> FALSE, catalog |-> cat]
    ELSE IF MissingArgs(data[i]) # {} THEN [raised |-> TRUE, catalog |-> cat]
    ELSE LoadRecords_break(data, i + 1,
            [k \in DOMAIN cat \cup {data[i].product_id} |->
                IF k = data[i].product_id THEN NewProduct(data[i]) ELSE cat[k]])

RECURSIVE LoadCartRecords_keep_dangling(_, _, _, _)
\* the cart loop creating an item for unknown products too ( no 'if prod' )
LoadCartRecords_keep_dangling(data, i, cat, its) ==
    IF i > Len(data) THEN [catalog |-> cat, items |-> its]
    ELSE LET pid == data[i].product_id
         IN  LoadCartRecords_keep_dangling(data, i + 1,
                IF pid \in DOMAIN cat
                THEN [cat EXCEPT ![pid] = decrease_quantity(cat[pid], data[i].quantity).product]
                ELSE cat,
                Put(its, pid, CartItem(pid, data[i].quantity)))

RECURSIVE LoadRecords(_, _, _)
\* the for loop over the records of the file from index i on, with catalog cat
LoadRecords(data, i, cat) ==
    IF i > Len(data) THEN [raised |-> FALSE, catalog |-> cat]
    ELSE IF "product_id" \notin DOMAIN data[i] THEN LoadRecords(data, i + 1, cat)
    ELSE IF MissingArgs(data[i]) # {} THEN [raised |-> TRUE, catalog |-> cat]
    ELSE LoadRecords(data, i + 1,
            [k \in DOMAIN cat \cup {data[i].product_id} |->
                IF k = data[i].product_id THEN NewProduct(data[i]) ELSE cat[k]])

load_catalog(file) ==
    IF ~file.exists THEN [raised |-> FALSE, catalog |-> EmptyDict]
    ELSE LoadRecords(file.data, 1, EmptyDict)

----------------------------------------------------------------------------
(* ShoppingCart._load_cart_state and _save_cart_state *)

RECURSIVE LoadCartRecords(_, _, _, _)
LoadCartRecords(data, i, cat, its) ==
    IF i > Len(data) THEN [catalog |-> cat, items |-> its]
    ELSE LET pid == data[i].product_id
         IN  IF pid \in DOMAIN cat
             THEN LoadCartRecords(data, i + 1,
                    [cat EXCEPT ![pid] = decrease_quantity(cat[pid], data[i].quantity).product],
                    Put(its, pid, CartItem(pid, data[i].quantity)))
             ELSE LoadCartRecords(data, i + 1, cat, its)

load_cart_state(file, cat, its) ==
    IF ~file.exists THEN [catalog |-> cat, items |-> its]
    ELSE LoadCartRecords(file.data, 1, cat, its)

\* _save_cart_state leaving out the items whose quantity is 0
save_cart_state_skip_zero(its, cat) ==
    File([i \in DOMAIN SelectSeq(its, LAMBDA it : it.quantity > 0) |->
            to_dict(SelectSeq(its, LAMBDA it : it.quantity > 0)[i], cat)])

save_cart_state(its, cat) == File([i \in DOMAIN its |-> to_dict(its[i], cat)])

\* ShoppingCart.get_total: the sum of the subtotals of the items from index i on
RECURSIVE SumSubtotals(_, _, _)
SumSubtotals(its, cat, i) ==
    IF i > Len(its) THEN 0
    ELSE calculate_subtotal(its[i], cat) + SumSubtotals(its, cat, i + 1)

get_total(its, cat) == SumSubtotals(its, cat, 1)

\* update_quantity taking the restore branch for diff <= 0 ( <= for < )
UpdateBranch_le(diff) ==
    IF diff > 0 THEN "decrease" ELSE IF diff <= 0 THEN "increase" ELSE "none"

\* the if / elif of update_quantity (lines 198 and 203)
UpdateBranch(diff) ==
    IF diff > 0 THEN "decrease" ELSE IF diff < 0 THEN "increase" ELSE "none"

\* add_item overwriting the quantity of an existing item ( = for += )
AddToItems_overwrite(its, product_id, quantity) ==
    IF product_id \in Keys(its)
    THEN Put(its, product_id, SetQuantity(Get(its, product_id), quantity))
    ELSE Put(its, product_id, CartItem(product_id, quantity))

\* lines 176-179 of add_item: accumulate into an existing item or create one
AddToItems(its, product_id, quantity) ==
    IF product_id \in Keys(its)
    THEN Put(its, product_id,
             SetQuantity(Get(its, product_id), Get(its, product_id).quantity + quantity))
    ELSE Put(its, product_id, CartItem(product_id, quantity))

----------------------------------------------------------------------------
(* History of calls *)

Call(op, product_id, quantity, ret) ==
    [op |-> op, product_id |-> product_id, quantity |-> quantity, ret |-> ret,
     catalog |-> catalog, items |-> items, cartFile |-> cartFile]

Summary(call) ==
    [op |-> call.op, product_id |-> call.product_id, ret |-> call.ret,
     stock |-> IF call.product_id \in DOMAIN call.catalog
               THEN Stock(call.catalog, call.product_id) ELSE 0,
     quantity |-> CartQty(call.items, call.product_id)]

NoCall == [op |-> "none", product_id |-> NoProduct, quantity |-> 0, ret |-> FALSE,
           catalog |-> EmptyDict, items |-> <<>>, cartFile |-> NoFile]

Record(op, product_id, quantity, ret) ==
    /\ last' = Call(op, product_id, quantity, ret)
    /\ prior' = IF last.op = "add_item" /\ last.ret THEN Summary(last) ELSE Summary(NoCall)

Bounded(cat) ==
    \A k \in DOMAIN cat : Stock(cat, k) <= MaxAvail /\ Stock(cat, k) >= -MaxAvail

BoundedItems(its) == \A i \in DOMAIN its : its[i].quantity <= MaxCart

----------------------------------------------------------------------------
(* ShoppingCart.__init__ *)

Construct ==
    LET lc == load_catalog(catalogFile)
        ls == load_cart_state(cartFile, lc.catalog, <<>>)
    IN  /\ pc # "crashed"
        /\ \/ /\ lc.raised
              /\ pc' = "crashed"
              /\ catalog' = EmptyDict
              /\ items' = <<>>
           \/ /\ ~lc.raised
              /\ pc' = "ready"
              /\ catalog' = ls.catalog
              /\ items' = ls.items
        /\ Record("construct", NoProduct, 0, ~lc.raised)
        /\ UNCHANGED <<catalogFile, cartFile>>

----------------------------------------------------------------------------
(* ShoppingCart.add_item / remove_item / update_quantity *)

add_item(product_id, quantity) ==
    /\ pc = "ready"
    /\ \/ /\ product_id \notin DOMAIN catalog
          /\ Record("add_item", product_id, quantity, FALSE)
          /\ UNCHANGED <<catalog, items, cartFile>>
       \/ /\ product_id \in DOMAIN catalog
          /\ decrease_quantity(catalog[product_id], quantity).ok
          /\ catalog' = [catalog EXCEPT ![product_id] =
                            decrease_quantity(catalog[product_id], quantity).product]
          /\ items' = AddToItems(items, product_id, quantity)
          /\ BoundedItems(items')
          /\ cartFile' = save_cart_state(items', catalog')
          /\ Record("add_item", product_id, quantity, TRUE)
       \/ /\ product_id \in DOMAIN catalog
          /\ ~decrease_quantity(catalog[product_id], quantity).ok
          /\ Record("add_item", product_id, quantity, FALSE)
          /\ UNCHANGED <<catalog, items, cartFile>>
    /\ UNCHANGED <<catalogFile, pc>>

remove_item(product_id) ==
    /\ pc = "ready"
    /\ \/ /\ product_id \in Keys(items)
          /\ items' = Pop(items, product_id)
          /\ catalog' = [catalog EXCEPT ![Get(items, product_id).product] =
                            increase_quantity(@, Get(items, product_id).quantity)]
          /\ Bounded(catalog')
          /\ cartFile' = save_cart_state(items', catalog')
          /\ Record("remove_item", product_id, 0, TRUE)
       \/ /\ product_id \notin Keys(items)
          /\ Record("remove_item", product_id, 0, FALSE)
          /\ UNCHANGED <<catalog, items, cartFile>>
    /\ UNCHANGED <<catalogFile, pc>>

update_quantity(product_id, new_quantity) ==
    /\ pc = "ready"
    /\ \/ /\ product_id \notin Keys(items)
          /\ Record("update_quantity", product_id, new_quantity, FALSE)
          /\ UNCHANGED <<catalog, items, cartFile>>
       \/ /\ product_id \in Keys(items)
          /\ LET item == Get(items, product_id)
                 diff == new_quantity - item.quantity
                 dec == decrease_quantity(catalog[item.product], diff)
             IN  \/ /\ UpdateBranch(diff) = "decrease"
                    /\ dec.ok
                    /\ catalog' = [catalog EXCEPT ![item.product] = dec.product]
                    /\ items' = Put(items, product_id, SetQuantity(item, new_quantity))
                    /\ BoundedItems(items')
                    /\ cartFile' = save_cart_state(items', catalog')
                    /\ Record("update_quantity", product_id, new_quantity, TRUE)
                 \/ /\ UpdateBranch(diff) = "increase"
                    /\ catalog' = [catalog EXCEPT ![item.product] =
                                      increase_quantity(@, -diff)]
                    /\ Bounded(catalog')
                    /\ items' = Put(items, product_id, SetQuantity(item, new_quantity))
                    /\ cartFile' = save_cart_state(items', catalog')
                    /\ Record("update_quantity", product_id, new_quantity, TRUE)
                 \/ /\ \/ UpdateBranch(diff) = "none"
                       \/ UpdateBranch(diff) = "decrease" /\ ~dec.ok
                    /\ Record("update_quantity", product_id, new_quantity, FALSE)
                    /\ UNCHANGED <<catalog, items, cartFile>>
    /\ UNCHANGED <<catalogFile, pc>>

\* Product-level calls, made directly on a catalog object
product_increase(product_id, amount) ==
    /\ pc = "ready"
    /\ product_id \in DOMAIN catalog
    /\ catalog' = [catalog EXCEPT ![product_id] = increase_quantity(@, amount)]
    /\ Bounded(catalog')
    /\ Record("increase_quantity", product_id, amount, TRUE)
    /\ UNCHANGED <<catalogFile, cartFile, items, pc>>

product_decrease(product_id, amount) ==
    /\ pc = "ready"
    /\ product_id \in DOMAIN catalog
    /\ catalog' = [catalog EXCEPT ![product_id] = decrease_quantity(@, amount).product]
    /\ Record("decrease_quantity", product_id, amount,
              decrease_quantity(catalog[product_id], amount).ok)
    /\ UNCHANGED <<catalogFile, cartFile, items, pc>>

\* ShoppingCart.get_total, a query: the total is the call's return value
get_total_call ==
    /\ pc = "ready"
    /\ Record("get_total", NoProduct, 0, get_total(items, catalog))
    /\ UNCHANGED <<catalogFile, cartFile, catalog, items, pc>>

AddItem == \E p \in ProductIds, q \in Quantities : add_item(p, q)
RemoveItem == \E p \in ProductIds : remove_item(p)
UpdateQuantity == \E p \in ProductIds, q \in Quantities : update_quantity(p, q)

----------------------------------------------------------------------------
(* Catalog files *)

BaseRecord(id, stock) ==
    [product_id |-> id, name |-> "Pen", price |-> 5, quantity_available |-> stock]
PhysicalRecord(id, stock) ==
    [type |-> "physical", product_id |-> id, name |-> "Book", price |-> 3,
     quantity_available |-> stock, weight |-> 1]
DigitalRecord(id, stock) ==
    [type |-> "digital", product_id |-> id, name |-> "Song", price |-> 2,
     quantity_available |-> stock, download_link |-> "url"]

\* complete catalogs: a base product P1 and a physical product P2
CompleteCatalogs ==
    {File(<<BaseRecord("P1", s1), PhysicalRecord("P2", 1)>>) : s1 \in 0..MaxStock}

\* the state ShoppingCart() builds from a complete catalog and no cart file
Init ==
    /\ catalogFile \in CompleteCatalogs
    /\ cartFile = NoFile
    /\ catalog = load_cart_state(cartFile, load_catalog(catalogFile).catalog, <<>>).catalog
    /\ items = load_cart_state(cartFile, load_catalog(catalogFile).catalog, <<>>).items
    /\ pc = "ready"
    /\ last = NoCall
    /\ prior = Summary(NoCall)

Next == AddItem \/ RemoveItem \/ UpdateQuantity

Spec == Init /\ [][Next]_vars

\* the service with restarts: a new ShoppingCart is built from the same two files
NextReload == AddItem \/ RemoveItem \/ UpdateQuantity \/ Construct

SpecReload == Init /\ [][NextReload]_vars

\* a Product on its own, called directly
IncreaseQuantity == \E p \in CatalogIds, a \in Quantities : product_increase(p, a)
DecreaseQuantity == \E p \in CatalogIds, a \in Quantities : product_decrease(p, a)

NextProduct == IncreaseQuantity \/ DecreaseQuantity

SpecProduct == Init /\ [][NextProduct]_vars

----------------------------------------------------------------------------
(* Construction from arbitrary files *)

Restrict(rec, D) == [k \in D |-> rec[k]]
IdAt(i) == IF i % 2 = 1 THEN "P1" ELSE "P2"

\* the records obtained from a complete one by leaving out any subset of its fields
\* (the type tag stays)
Partial(full) ==
    {Restrict(full, D \cup ({"type"} \cap DOMAIN full)) :
        D \in SUBSET (DOMAIN full \ {"type"})}

\* a record of one of the three variants lacking any subset of its fields
PartialRecords(stock) ==
    Partial(BaseRecord("P1", stock)) \cup Partial(PhysicalRecord("P1", stock))
      \cup Partial(DigitalRecord("P1", stock))

WithId(rec, i) ==
    IF "product_id" \in DOMAIN rec THEN [rec EXCEPT !.product_id = IdAt(i)] ELSE rec

\* file is a catalog file of up to len records, each lacking any of its fields
ArbitraryCatalog(file, len) ==
    \E n \in 0..len : \E f \in [1..n -> PartialRecords(1)] :
        file = File([i \in 1..n |-> WithId(f[i], i)])

\* hand-written cart records: any id, any non-negative quantity up to above the stock
CartRecords == [product_id : ProductIds, quantity : 0..(MaxStock + 1)]

\* file is an absent cart file or one of up to len hand-written records
ArbitraryCart(file, len) ==
    \/ file = NoFile
    \/ \E n \in 0..len : \E f \in [1..n -> CartRecords] : file = File(f)

InitFiles ==
    /\ \/ ArbitraryCatalog(catalogFile, MaxRecords) /\ cartFile = NoFile
       \/ catalogFile \in CompleteCatalogs /\ ArbitraryCart(cartFile, MaxCartRecords)
    /\ catalog = EmptyDict
    /\ items = <<>>
    /\ pc = "new"
    /\ last = NoCall
    /\ prior = Summary(NoCall)

NextConstruct == pc = "new" /\ Construct

SpecConstruct == InitFiles /\ [][NextConstruct]_vars

\* the service with get_total calls between the operations
GetTotal == get_total_call

NextTotal == AddItem \/ RemoveItem \/ UpdateQuantity \/ GetTotal

SpecTotal == Init /\ [][NextTotal]_vars

\* file is an absent cart file or one of up to len records naming P1 or a product
\* that is not in the catalog
StaleCart(file, len) ==
    \/ file = NoFile
    \/ \E n \in 0..len :
          \E f \in [1..n -> [product_id : {"P1", UnknownId}, quantity : 0..(MaxStock + 1)]] :
             file = File(f)

\* the service started on a catalog with one unit of P1 and of P2 and a cart file
\* left by an earlier run
InitStale ==
    /\ catalogFile = File(<<BaseRecord("P1", 1), PhysicalRecord("P2", 1)>>)
    /\ StaleCart(cartFile, MaxCartRecords)
    /\ catalog = EmptyDict
    /\ items = <<>>
    /\ pc = "new"
    /\ last = NoCall
    /\ prior = Summary(NoCall)

NextStale == NextConstruct \/ AddItem \/ RemoveItem \/ UpdateQuantity

SpecStale == InitStale /\ [][NextStale]_vars

----------------------------------------------------------------------------
(* Properties *)

\* the stock product p had when the catalog file was loaded
InitialStock(p) == Stock(load_catalog(catalogFile).catalog, p)

Pairs(its) == {<<its[i].key, its[i].quantity>> : i \in DOMAIN its}
FilePairs(file) ==
    {<<file.data[i].product_id, file.data[i].quantity>> : i \in DOMAIN file.data}
RecordsOf(file, p) == {i \in DOMAIN file.data : file.data[i].product_id = p}

RECURSIVE SumQty(_, _)
\* the sum of the quantities of the records with indices in S
SumQty(file, S) ==
    IF S = {} THEN 0
    ELSE LET i == CHOOSE j \in S : TRUE
         IN  file.data[i].quantity + SumQty(file, S \ {i})

LastIn(S) == CHOOSE i \in S : \A j \in S : j <= i

\* C1: under Spec, for every catalog product the available stock plus the
\* quantity held in the cart (0 when absent) equals the stock it was loaded with.
C1_StockCartLockstep ==
    \A p \in DOMAIN catalog : Stock(catalog, p) + CartQty(items, p) = InitialStock(p)

\* C2: under SpecReload, a ShoppingCart constructed from the same catalog file and
\* the saved cart file has the ids and quantities of the saved cart, and every
\* product's stock is its catalog-file stock minus its persisted quantity.
C2_ReloadReproducesCart ==
    last.op = "construct" =>
        /\ Pairs(items) = Pairs(last.items)
        /\ Pairs(items) = FilePairs(cartFile)
        /\ \A p \in DOMAIN catalog :
              Stock(catalog, p) = InitialStock(p) - SumQty(cartFile, RecordsOf(cartFile, p))

\* C3: update_quantity(p, n) on a cart item of quantity c > n returns true, leaves
\* the item with quantity n and raises the stock of p by exactly c - n.
C3_ShrinkSetsQuantity ==
    (/\ last.op = "update_quantity"
     /\ last.product_id \in Keys(last.items)
     /\ last.quantity < CartQty(last.items, last.product_id))
    => /\ last.ret
       /\ CartQty(items, last.product_id) = last.quantity
       /\ Stock(catalog, last.product_id) =
            Stock(last.catalog, last.product_id)
              + (CartQty(last.items, last.product_id) - last.quantity)

\* a remove_item(p) that immediately follows a successful add_item(p, q)
RemoveAfterAdd ==
    /\ last.op = "remove_item"
    /\ prior.op = "add_item"
    /\ prior.ret
    /\ prior.product_id = last.product_id

\* C4 (as claimed): remove_item(p) right after a successful add_item(p, q) leaves
\* the stock of p equal to its value just before the add_item call.
C4_RoundTripRestores ==
    RemoveAfterAdd => Stock(catalog, last.product_id) = prior.stock

\* C4 (amended): remove_item(p) right after a successful add_item(p, q) returns
\* true and leaves the stock of p equal to its value just before the add_item
\* call plus the cart quantity p had before that call (0 when p was not in the cart).
C4_RoundTripRestoresAll ==
    RemoveAfterAdd =>
        /\ last.ret
        /\ Stock(catalog, last.product_id) = prior.stock + prior.quantity

C4_Witness ==
    /\ RemoveAfterAdd
    /\ prior.quantity > 0
    /\ Stock(catalog, last.product_id) = prior.stock + prior.quantity

\* C5: after the cart state is loaded, every catalog product named by cart-file
\* records has a CartItem with the (last) record's quantity and its stock is the
\* catalog-file stock reduced by exactly the recorded quantities.
C5_LoadDeductsRecords ==
    (last.op = "construct" /\ pc = "ready") =>
        \A p \in DOMAIN catalog :
            RecordsOf(cartFile, p) # {} =>
                /\ p \in Keys(items)
                /\ CartQty(items, p) = cartFile.data[LastIn(RecordsOf(cartFile, p))].quantity
                /\ Stock(catalog, p) =
                     InitialStock(p) - SumQty(cartFile, RecordsOf(cartFile, p))

\* C6: loading a catalog file whose records lack any of their fields never raises,
\* and every record that has a product_id yields a catalog entry.
C6_LoadNeverAborts ==
    last.op = "construct" =>
        /\ pc = "ready"
        /\ \A i \in DOMAIN catalogFile.data :
              "product_id" \in DOMAIN catalogFile.data[i]
                 => catalogFile.data[i].product_id \in DOMAIN catalog

\* C7: under SpecProduct (stock starts non-negative), after increase_quantity and
\* decrease_quantity calls with any integer amounts the stock is never negative.
C7_ProductStockNonNegative ==
    last.op \in {"increase_quantity", "decrease_quantity"}
        => Stock(catalog, last.product_id) >= 0

\* C8: under Spec every product's quantity_available is >= 0 in every state.
C8_ServiceStockNonNegative ==
    \A p \in DOMAIN catalog : Stock(catalog, p) >= 0

\* an add_item that took the last unit in stock, after a stock-raising update
C8_Witness ==
    /\ last.op = "add_item"
    /\ last.ret
    /\ Stock(catalog, last.product_id) = 0
    /\ CartQty(items, last.product_id) > InitialStock(last.product_id)

\* the precondition under which add_item must fail
AddMustFail ==
    /\ last.op = "add_item"
    /\ \/ last.product_id \notin DOMAIN last.catalog
       \/ ~(0 < last.quantity /\ last.quantity <= Stock(last.catalog, last.product_id))

\* C9: add_item(p, q) with p not in the catalog, or q outside 0 < q <= stock(p),
\* returns false and leaves the catalog, the cart and the cart file unchanged.
C9_FailedAddChangesNothing ==
    AddMustFail =>
        /\ ~last.ret
        /\ catalog = last.catalog
        /\ items = last.items
        /\ cartFile = last.cartFile

\* a failed add_item for more than the stock left, with a saved non-empty cart
C9_Witness ==
    /\ AddMustFail
    /\ last.product_id \in DOMAIN catalog
    /\ last.quantity > Stock(last.catalog, last.product_id)
    /\ items # <<>>
    /\ cartFile.exists
    /\ ~last.ret

\* the precondition under which add_item must succeed
AddMustSucceed ==
    /\ last.op = "add_item"
    /\ last.product_id \in DOMAIN last.catalog
    /\ 0 < last.quantity
    /\ last.quantity <= Stock(last.catalog, last.product_id)

\* C10: add_item(p, q) with p in the catalog and 0 < q <= stock(p) returns true,
\* lowers the stock of p by q and makes the cart quantity of p its previous cart
\* quantity plus q (q when p was not in the cart).
C10_SuccessfulAddReserves ==
    AddMustSucceed =>
        /\ last.ret
        /\ Stock(catalog, last.product_id) = Stock(last.catalog, last.product_id) - last.quantity
        /\ last.product_id \in Keys(items)
        /\ CartQty(items, last.product_id) =
             CartQty(last.items, last.product_id) + last.quantity

\* a successful add_item onto an item already in the cart with a positive quantity
C10_Witness ==
    /\ AddMustSucceed
    /\ last.ret
    /\ last.product_id \in Keys(last.items)
    /\ CartQty(last.items, last.product_id) > 0
    /\ CartQty(items, last.product_id) > last.quantity

ServiceOps == {"add_item", "remove_item", "update_quantity"}

\* an update_quantity(p, n) on a cart item whose quantity c is below n
UpdateGrows ==
    /\ last.op = "update_quantity"
    /\ last.product_id \in Keys(last.items)
    /\ last.quantity > CartQty(last.items, last.product_id)

\* C11: update_quantity(p, n) with n > c returns true exactly when n - c <= stock(p);
\* on success the cart quantity is n and the stock is lower by n - c; on failure the
\* stock, the cart and the cart file are unchanged.
C11_GrowthNeedsStock ==
    UpdateGrows =>
        LET p == last.product_id
            diff == last.quantity - CartQty(last.items, p)
        IN  /\ last.ret <=> diff <= Stock(last.catalog, p)
            /\ last.ret => /\ CartQty(items, p) = last.quantity
                           /\ p \in Keys(items)
                           /\ Stock(catalog, p) = Stock(last.catalog, p) - diff
            /\ ~last.ret => /\ catalog = last.catalog
                            /\ items = last.items
                            /\ cartFile = last.cartFile

\* a growth that takes exactly the stock that was left, from a positive quantity
C11_Witness ==
    /\ UpdateGrows
    /\ last.ret
    /\ CartQty(last.items, last.product_id) > 0
    /\ Stock(catalog, last.product_id) = 0

\* C12: remove_item(p) returns false and changes nothing when p has no cart item;
\* otherwise it returns true, p is no longer in the cart and the stock of p is
\* higher by exactly the removed item's quantity.
C12_RemoveRestoresStock ==
    last.op = "remove_item" =>
        IF last.product_id \in Keys(last.items)
        THEN /\ last.ret
             /\ last.product_id \notin Keys(items)
             /\ Stock(catalog, last.product_id) =
                  Stock(last.catalog, last.product_id) + CartQty(last.items, last.product_id)
        ELSE /\ ~last.ret
             /\ catalog = last.catalog
             /\ items = last.items
             /\ cartFile = last.cartFile

\* a remove_item of an item holding a positive quantity
C12_Witness ==
    /\ last.op = "remove_item"
    /\ last.ret
    /\ CartQty(last.items, last.product_id) > 0
    /\ last.product_id \notin Keys(items)

\* the {product_id, quantity} records of the in-memory cart, in its order
CartRecordsOf(its) ==
    [i \in DOMAIN its |-> [product_id |-> its[i].key, quantity |-> its[i].quantity]]

\* C13: after a call that returned true the cart file holds exactly the in-memory
\* cart's {product_id, quantity} records; a call that returned false leaves the
\* file as it was; so once the file exists it agrees with the in-memory cart.
C13_WriteThrough ==
    /\ (last.op \in ServiceOps /\ last.ret) =>
            (cartFile.exists /\ cartFile.data = CartRecordsOf(items))
    /\ (last.op \in ServiceOps /\ ~last.ret) => cartFile = last.cartFile
    /\ cartFile.exists => cartFile.data = CartRecordsOf(items)

\* a failed call after a successful update to quantity 0: file and cart agree
C13_Witness ==
    /\ last.op \in ServiceOps
    /\ ~last.ret
    /\ cartFile.exists
    /\ \E i \in DOMAIN items : items[i].quantity = 0
    /\ Len(cartFile.data) = Len(items)

\* C15: update_quantity(p, n) with n equal to the item's quantity, or for a product
\* with no cart item, returns false and leaves stock, cart and cart file unchanged.
C15_NoOpUpdateFails ==
    (/\ last.op = "update_quantity"
     /\ \/ last.product_id \notin Keys(last.items)
        \/ last.quantity = CartQty(last.items, last.product_id))
    => /\ ~last.ret
       /\ catalog = last.catalog
       /\ items = last.items
       /\ cartFile = last.cartFile

\* an update_quantity to the quantity the item already has
C15_Witness ==
    /\ last.op = "update_quantity"
    /\ last.product_id \in Keys(last.items)
    /\ last.quantity = CartQty(last.items, last.product_id)
    /\ last.quantity > 0
    /\ ~last.ret

\* C19: a call on product p leaves the Product object and the cart entry (presence
\* and quantity) of every other product as they were.
C19_OtherProductsUntouched ==
    last.op \in ServiceOps =>
        \A o \in DOMAIN catalog \ {last.product_id} :
            /\ catalog[o] = last.catalog[o]
            /\ (o \in Keys(items)) <=> (o \in Keys(last.items))
            /\ CartQty(items, o) = CartQty(last.items, o)

\* a successful remove_item while another product is in the cart
C19_Witness ==
    /\ last.op = "remove_item"
    /\ last.ret
    /\ \E o \in Keys(items) : o # last.product_id /\ CartQty(items, o) > 0

\* C20: update_quantity(p, 0) on an item of positive quantity c returns true, adds
\* c to the stock and leaves p in the cart and in the file with quantity 0; no cart
\* quantity is ever negative; remove_item of a zero-quantity item returns true and
\* changes no stock.
C20_ZeroItemsStay ==
    /\ (/\ last.op = "update_quantity"
        /\ last.quantity = 0
        /\ CartQty(last.items, last.product_id) > 0)
       => /\ last.ret
          /\ Stock(catalog, last.product_id) =
               Stock(last.catalog, last.product_id) + CartQty(last.items, last.product_id)
          /\ last.product_id \in Keys(items)
          /\ CartQty(items, last.product_id) = 0
          /\ [product_id |-> last.product_id, quantity |-> 0] \in Range(cartFile.data)
    /\ \A i \in DOMAIN items : items[i].quantity >= 0
    /\ (/\ last.op = "remove_item"
        /\ last.product_id \in Keys(last.items)
        /\ CartQty(last.items, last.product_id) = 0)
       => /\ last.ret
          /\ catalog = last.catalog
          /\ last.product_id \notin Keys(items)

\* a remove_item of an item that update_quantity had brought to 0
C20_Witness ==
    /\ last.op = "remove_item"
    /\ last.ret
    /\ last.product_id \in Keys(last.items)
    /\ CartQty(last.items, last.product_id) = 0
    /\ catalog = last.catalog

\* C14: once the cart is loaded, and after any later add_item, remove_item and
\* update_quantity calls, every key of the cart is a key of the catalog; right after
\* the load the cart holds exactly the catalog products the file names, and a
\* product the file does not name still has its catalog-file stock.
C14_NoDanglingItems ==
    pc = "ready" =>
        /\ Keys(items) \subseteq DOMAIN catalog
        /\ \A i \in DOMAIN items : items[i].product \in DOMAIN catalog
        /\ last.op = "construct" =>
              /\ Keys(items) = {p \in DOMAIN catalog : RecordsOf(cartFile, p) # {}}
              /\ \A p \in DOMAIN catalog :
                    RecordsOf(cartFile, p) = {} => Stock(catalog, p) = InitialStock(p)

\* a call made on a cart that was loaded from a file naming an unknown product
C14_Witness ==
    /\ pc = "ready"
    /\ last.op \in ServiceOps
    /\ RecordsOf(last.cartFile, UnknownId) # {}
    /\ RecordsOf(last.cartFile, "P1") # {}
    /\ items # <<>>

\* C16: decrease_quantity(amount) returns true and subtracts amount exactly when
\* 0 < amount <= quantity_available; otherwise it returns false and the stock is
\* unchanged.
C16_DecreaseGuard ==
    last.op = "decrease_quantity" =>
        LET before == Stock(last.catalog, last.product_id)
        IN  IF 0 < last.quantity /\ last.quantity <= before
            THEN last.ret /\ Stock(catalog, last.product_id) = before - last.quantity
            ELSE ~last.ret /\ catalog = last.catalog

\* a refused decrease of more than the stock, and of a non-positive amount
C16_Witness ==
    /\ last.op = "decrease_quantity"
    /\ ~last.ret
    /\ last.quantity > Stock(last.catalog, last.product_id)
    /\ Stock(last.catalog, last.product_id) > 0

\* record rec has every field its variant's constructor needs
Complete(rec) == "product_id" \in DOMAIN rec /\ MissingArgs(rec) = {}

\* the index of the last complete record of the file with product id p
LastComplete(file, p) ==
    LastIn({i \in DOMAIN file.data : Complete(file.data[i]) /\ file.data[i].product_id = p})

\* C17: loading a catalog file whose records either lack product_id or are complete
\* yields a catalog holding exactly the complete records, keyed by product_id,
\* wherever the records without product_id stand (seen with no cart file, so that
\* no cart record has been deducted from the loaded stock).
C17_SkipsRecordsWithoutId ==
    (/\ last.op = "construct"
     /\ ~cartFile.exists
     /\ \A i \in DOMAIN catalogFile.data :
           "product_id" \notin DOMAIN catalogFile.data[i] \/ Complete(catalogFile.data[i]))
    => /\ pc = "ready"
       /\ DOMAIN catalog =
            {catalogFile.data[i].product_id :
                i \in {j \in DOMAIN catalogFile.data : Complete(catalogFile.data[j])}}
       /\ \A p \in DOMAIN catalog :
             \A k \in DOMAIN catalogFile.data[LastComplete(catalogFile, p)] \ {"type"} :
                catalog[p][k] = catalogFile.data[LastComplete(catalogFile, p)][k]

\* a load that skipped a first record without product_id and kept the second
C17_Witness ==
    /\ last.op = "construct"
    /\ ~cartFile.exists
    /\ pc = "ready"
    /\ Len(catalogFile.data) >= 2
    /\ "product_id" \notin DOMAIN catalogFile.data[1]
    /\ Complete(catalogFile.data[2])
    /\ DOMAIN catalog = {catalogFile.data[2].product_id}

RECURSIVE SumOver(_, _, _)
\* the sum of price * quantity over the products in S
SumOver(S, its, cat) ==
    IF S = {} THEN 0
    ELSE LET p == CHOOSE q \in S : TRUE
         IN  cat[p].price * CartQty(its, p) + SumOver(S \ {p}, its, cat)

\* C18: get_total() returns the sum over the items now in the cart of product
\* price times item quantity (0 for an empty cart).
C18_TotalIsSum ==
    last.op = "get_total" => last.ret = SumOver(Keys(items), items, catalog)

\* a total taken over two items right after a mutation
C18_Witness ==
    /\ last.op = "get_total"
    /\ Len(items) = 2
    /\ last.ret = 5 * CartQty(items, "P1") + 3 * CartQty(items, "P2")
    /\ CartQty(items, "P1") > 1
    /\ CartQty(items, "P2") > 0

====
